---------------------------- MODULE Spec2Model ----------------------------
(***************************************************************************)
(* TODO Tree (src/main.ts): the debounced refresh coordinator of           *)
(* TodoTreePlugin and the scan -> build -> render cycle of TodoTreeView.   *)
(*                                                                         *)
(* Strings are sequences of one-character strings, so that split, join,    *)
(* trim, toLowerCase and includes are computed and not assumed.            *)
(***************************************************************************)
EXTENDS Integers, Sequences, FiniteSets, TLC

(***************************************************************************)
(* Program constants and model bounds                                      *)
(***************************************************************************)
\* const DEBOUNCE_DELAY = 300
DEBOUNCE_DELAY == 300
\* refreshTimeout: NodeJS.Timeout | null = null; timer handles are 1, 2, ...
NULL == 0
\* the clock advances by at most TickStep per Tick
TickStep == 150
\* view instances that may exist in the workspace
NumViews == 2
\* refresh cycles that may be suspended on one view at a time
MaxInFlight == 2
\* longest document text of the scan specification, in characters
MaxLen == 3
\* longest marker list of the scan specification
MaxMarkers == 2

Views == 1..NumViews

(***************************************************************************)
(* String primitives of the host language                                  *)
(***************************************************************************)
NL == "\n"
SP == " "
SLASH == <<"/">>
ROOT == <<"r", "o", "o", "t">>

UpperCase == <<"A", "B", "C", "D", "E", "F", "G", "H", "I", "J", "K", "L", "M",
               "N", "O", "P", "Q", "R", "S", "T", "U", "V", "W", "X", "Y", "Z">>
LowerCase == <<"a", "b", "c", "d", "e", "f", "g", "h", "i", "j", "k", "l", "m",
               "n", "o", "p", "q", "r", "s", "t", "u", "v", "w", "x", "y", "z">>

\* String.prototype.toLowerCase, one character
LowerChar(c) ==
    IF \E i \in 1..Len(UpperCase) : UpperCase[i] = c
    THEN LowerCase[CHOOSE i \in 1..Len(UpperCase) : UpperCase[i] = c]
    ELSE c

toLowerCase(s) == [i \in 1..Len(s) |-> LowerChar(s[i])]

\* String.prototype.includes
includes(s, sub) ==
    \E i \in 0..(Len(s) - Len(sub)) : SubSeq(s, i + 1, i + Len(sub)) = sub

\* index of the first occurrence of the one-character separator, 0 if none
RECURSIVE IndexOf(_, _, _)
IndexOf(s, c, from) ==
    IF from > Len(s) THEN 0
    ELSE IF s[from] = c THEN from
    ELSE IndexOf(s, c, from + 1)

\* String.prototype.split with a one-character separator
RECURSIVE split(_, _)
split(s, c) ==
    LET i == IndexOf(s, c, 1) IN
    IF i = 0 THEN <<s>>
    ELSE <<SubSeq(s, 1, i - 1)>> \o split(SubSeq(s, i + 1, Len(s)), c)

\* Array.prototype.join
RECURSIVE join(_, _)
join(parts, sep) ==
    IF Len(parts) = 0 THEN <<>>
    ELSE IF Len(parts) = 1 THEN parts[1]
    ELSE parts[1] \o sep \o join(Tail(parts), sep)

IsSpace(c) == c = SP

\* String.prototype.trim
RECURSIVE trimStart(_)
trimStart(s) ==
    IF Len(s) > 0 /\ IsSpace(s[1]) THEN trimStart(Tail(s)) ELSE s

RECURSIVE trimEnd(_)
trimEnd(s) ==
    IF Len(s) > 0 /\ IsSpace(s[Len(s)])
    THEN trimEnd(SubSeq(s, 1, Len(s) - 1)) ELSE s

trim(s) == trimEnd(trimStart(s))

(***************************************************************************)
(* Scanner: the body of the per-file loop of scanTodos                     *)
(***************************************************************************)
\* fault: the line is compared as written, without line.toLowerCase()
hasMatchCaseSensitive(line, lowered) ==
    \E j \in 1..Len(lowered) : includes(line, lowered[j])

\* const hasMatch = searchStrings.some(s => lowerCaseLine.includes(s))
hasMatch(line, lowered) ==
    \E j \in 1..Len(lowered) : includes(toLowerCase(line), lowered[j])

\* the inner for loop over lines, from 1-based position i
RECURSIVE scanLines(_, _, _)
scanLines(lines, lowered, i) ==
    IF i > Len(lines) THEN <<>>
    ELSE (IF hasMatch(lines[i], lowered)
          THEN <<[text |-> trim(lines[i]), line |-> i - 1]>>
          ELSE <<>>) \o scanLines(lines, lowered, i + 1)

\* fileTodos of one document
scanFile(content, lowered) == scanLines(split(content, NL), lowered, 1)

\* this.settings.searchStrings.map(s => s.toLowerCase())
lowerSearchStrings(strs) == [j \in 1..Len(strs) |-> toLowerCase(strs[j])]

\* if (fileTodos.length > 0) todos[file.path] = fileTodos
addFileTodos(acc, path, fileTodos) ==
    IF Len(fileTodos) > 0
    THEN [p \in (DOMAIN acc) \cup {path} |->
            IF p = path THEN fileTodos ELSE acc[p]]
    ELSE acc

EmptyTodos == [p \in {} |-> <<>>]

(***************************************************************************)
(* Tree builder                                                            *)
(***************************************************************************)
\* a node is named by the chain of children keys that leads to it from the
\* root; <<>> is the root
Prefixes(parts) == {SubSeq(parts, 1, i) : i \in 0..Len(parts)}

Children(keys, k) ==
    {c \in keys : Len(c) = Len(k) + 1 /\ SubSeq(c, 1, Len(k)) = k}

\* the nodes the double loop of buildFileTree creates, before propagation.
\* children is a plain object: the lookup children[part] is a lookup of an
\* own property only for a part that is no property name of
\* Object.prototype ("constructor", "toString", ...); the paths of this
\* module hold no such part.
createNodes(todos) ==
    LET keys == {<<>>} \cup UNION {Prefixes(split(f, "/")) : f \in DOMAIN todos}
        leaf(k) == {f \in DOMAIN todos : split(f, "/") = k}
    IN [k \in keys |->
          IF k = <<>>
          THEN [name |-> ROOT, isFile |-> FALSE, path |-> <<>>,
                hasTodos |-> FALSE, todoCount |-> 0]
          ELSE [name |-> k[Len(k)],
                isFile |-> leaf(k) # {},
                path |-> join(k, SLASH),
                hasTodos |-> leaf(k) # {},
                todoCount |-> IF leaf(k) # {}
                              THEN Len(todos[CHOOSE f \in leaf(k) : TRUE])
                              ELSE 0]]

\* fault: a folder sums the counts its children hold before propagation,
\* without descending into them
propagateCountShallow(t, k) ==
    IF t[k].isFile THEN t[k].todoCount
    ELSE LET kids == Children(DOMAIN t, k)
             files == {c \in kids : t[c].isFile}
             RECURSIVE sum(_)
             sum(S) == IF S = {} THEN 0
                       ELSE LET c == CHOOSE x \in S : TRUE
                            IN t[c].todoCount + sum(S \ {c})
         IN sum(files)

\* the value propagateTodoCounts returns for node k
RECURSIVE propagateCount(_, _)
RECURSIVE sumCounts(_, _)
propagateCount(t, k) ==
    IF t[k].isFile THEN t[k].todoCount
    ELSE sumCounts(t, Children(DOMAIN t, k))

sumCounts(t, S) ==
    IF S = {} THEN 0
    ELSE LET c == CHOOSE x \in S : TRUE
         IN propagateCount(t, c) + sumCounts(t, S \ {c})

\* fault: the folder count is stored but node.hasTodos is left as created
propagateTodoCountsNoFlag(t) ==
    [k \in DOMAIN t |->
       IF t[k].isFile THEN t[k]
       ELSE [t[k] EXCEPT !.todoCount = propagateCount(t, k)]]

\* the tree after propagateTodoCounts(root)
propagateTodoCounts(t) ==
    [k \in DOMAIN t |->
       IF t[k].isFile THEN t[k]
       ELSE [t[k] EXCEPT
               !.todoCount = propagateCount(t, k),
               !.hasTodos = \E c \in Children(DOMAIN t, k) :
                               propagateCount(t, c) > 0]]

buildFileTree(todos) == propagateTodoCounts(createNodes(todos))

(***************************************************************************)
(* Renderer: the elements renderTree creates under the container           *)
(***************************************************************************)
\* const folderPath = currentPath ? `${currentPath}/${node.name}` : node.name
folderPathOf(currentPath, name) ==
    IF currentPath # <<>> THEN currentPath \o SLASH \o name ELSE name

RECURSIVE renderTree(_, _, _, _, _)
renderTree(t, todos, expanded, k, currentPath) ==
    IF ~t[k].hasTodos THEN {}
    ELSE IF t[k].isFile
    THEN {[kind |-> "file", node |-> k, path |-> t[k].path, open |-> FALSE,
           badge |-> t[k].todoCount, rows |-> todos[t[k].path]]}
    ELSE IF t[k].name # ROOT
    THEN LET folderPath == folderPathOf(currentPath, t[k].name) IN
         {[kind |-> "details", node |-> k, path |-> folderPath,
           open |-> folderPath \in expanded,
           badge |-> t[k].todoCount, rows |-> <<>>]}
         \cup UNION {renderTree(t, todos, expanded, c, folderPath) :
                       c \in Children(DOMAIN t, k)}
    ELSE UNION {renderTree(t, todos, expanded, c, currentPath) :
                  c \in Children(DOMAIN t, k)}

\* render(): container.empty(), then buildFileTree and renderTree(root)
render(todos, expanded) ==
    UNION {renderTree(t, todos, expanded, <<>>, <<>>) :
             t \in {buildFileTree(todos)}}

Details(d) == {e \in d : e.kind = "details"}

\* captureExpansionState: the paths of the open <details> elements
captureExpansionState(d) == {e.path : e \in {x \in Details(d) : x.open}}

(***************************************************************************)
(* The vault and the settings                                              *)
(***************************************************************************)
\* DEFAULT_SETTINGS.searchStrings
DEFAULT_SETTINGS ==
    << <<"t", "o", "d", "o">>,
       <<"f", "i", "x", "m", "e">>,
       <<"s", "h", "o", "u", "l", "d", " ", "r", "e", "m", "e", "m", "b", "e",
         "r", " ", "t", "o">> >>

\* the saved settings loadSettings() lays over the defaults
SavedSettings == << <<"t", "o", "d", "o">> >>

\* file.path of the markdown files the vault may hold (the extension plays
\* no part in the code and is left out)
PathA == <<"x", "/", "a">>
PathB == <<"x", "/", "r", "o", "o", "t", "/", "y", "/", "b">>
SpecPaths == {PathA, PathB}

\* document texts: one line with a marker, one line without
TextTodo == <<"T", "O", "D", "O">>
TextNone == <<"n">>
SpecContents == {TextTodo, TextNone}

\* paths, texts and marker lists of the scan specification
ScanPaths == {<<"a">>, <<"d", "/", "b">>, <<"d", "/", "e", "/", "c">>,
              <<"d", "/", "e", "/", "f">>}
ScanTexts == {<<"t">>, <<"x">>, <<"t", NL, "T">>}
Alphabet == {"t", "T", "x", SP, NL}
ScanMarkers == {<<"t">>, <<"T", "x">>, <<>>}

\* no file path is a folder of another file
IsVault(paths) ==
    \A f \in paths : \A g \in paths \ {f} :
        split(f, "/") \notin Prefixes(split(g, "/"))

(***************************************************************************)
(* State                                                                   *)
(***************************************************************************)
VARIABLES
    loaded,           \* the plugin is loaded: onload has run, onunload has not
    refreshTimeout,   \* TodoTreePlugin.refreshTimeout: NULL or a timer handle
    timers,           \* host timers scheduled by setTimeout: [id, remaining]
    vault,            \* path -> text of every markdown file
    searchStrings,    \* settings.searchStrings
    open,             \* views whose leaf is in the workspace
    todos,            \* TodoTreeView.todos, per view
    expandedFolders,  \* TodoTreeView.expandedFolders, per view
    dom,              \* elements below the view's container, per view
    rendered,         \* the container holds the button controls, per view
    cycles,           \* suspended onOpen / refresh invocations, per view
    sinceNotify,      \* time since the last change notification, capped
    chainLen,         \* notifications of the current burst, capped
    chainFires,       \* timer firings since the current burst began, capped
    collapsed,        \* per view: 1 after collapse-all until a folder is
                      \* opened; 2 once a cycle that was suspended at that
                      \* collapse-all has rendered
    lastToggle,       \* per view: the folder the user toggled while cycles
                      \* were suspended, the state it was given, and how
                      \* many of the oldest suspended cycles were suspended
                      \* then
    armed             \* per view: how many of the oldest suspended cycles
                      \* were suspended at the last collapse-all

vars == <<loaded, refreshTimeout, timers, vault, searchStrings, open, todos,
          expandedFolders, dom, rendered, cycles, sinceNotify, chainLen,
          chainFires, collapsed, armed, lastToggle>>

pluginVars == <<loaded, refreshTimeout, timers>>
viewVars == <<open, todos, expandedFolders, dom, rendered, cycles, collapsed,
              armed, lastToggle>>
burstVars == <<sinceNotify, chainLen, chainFires>>

(***************************************************************************)
(* A view instance                                                         *)
(***************************************************************************)
\* no toggle of the user is on record
NoToggle == [node |-> <<>>, open |-> FALSE, n |-> 0]

\* the record of the toggle after suspended cycle i has ended
cycleEnds(lt, i) ==
    IF i > lt.n THEN lt
    ELSE IF lt.n = 1 THEN NoToggle
    ELSE [lt EXCEPT !.n = @ - 1]

\* the fields of a freshly constructed TodoTreeView
NewView ==
    [todos |-> EmptyTodos, expandedFolders |-> {}, dom |-> {},
     rendered |-> FALSE, cycles |-> <<>>]

\* the fields of view v now
ViewOf(v) ==
    [todos |-> todos[v], expandedFolders |-> expandedFolders[v],
     dom |-> dom[v], rendered |-> rendered[v], cycles |-> cycles[v]]

\* this.todos = <result>; this.render()
finishCycle(w, result) ==
    [w EXCEPT !.todos = result,
              !.dom = render(result, w.expandedFolders),
              !.rendered = TRUE]

\* scanTodos up to its first await: the file list and the lowered markers
\* are read now; with no file to read the scan runs to its end.
\* pre records expandedFolders as it was when the invocation began.
beginScan(w, pre) ==
    IF DOMAIN vault = {}
    THEN finishCycle(w, EmptyTodos)
    ELSE [w EXCEPT !.cycles = Append(@,
            [remaining |-> DOMAIN vault, acc |-> EmptyTodos,
             lowered |-> lowerSearchStrings(searchStrings), pre |-> pre])]

\* onOpen(): this.todos = await this.scanTodos(); this.render()
onOpen(w) == beginScan(w, w.expandedFolders)

\* refresh(): captureExpansionState(), then as onOpen
refresh(w) ==
    beginScan([w EXCEPT !.expandedFolders = captureExpansionState(w.dom)],
              w.expandedFolders)

\* the view variables after each view v in DOMAIN nv has become nv[v]
SetViews(nv) ==
    \E n \in {nv} :
    LET S == DOMAIN n IN
    /\ todos' = [v \in Views |-> IF v \in S THEN n[v].todos ELSE todos[v]]
    /\ expandedFolders' = [v \in Views |->
          IF v \in S THEN n[v].expandedFolders ELSE expandedFolders[v]]
    /\ dom' = [v \in Views |-> IF v \in S THEN n[v].dom ELSE dom[v]]
    /\ rendered' = [v \in Views |->
          IF v \in S THEN n[v].rendered ELSE rendered[v]]
    /\ cycles' = [v \in Views |-> IF v \in S THEN n[v].cycles ELSE cycles[v]]

(***************************************************************************)
(* Refresh coordinator                                                     *)
(***************************************************************************)
Due == {t \in timers : t.remaining = 0}

\* fault: the pending timer is not cleared before the next is scheduled
clearPendingKeep(rt, ts) == ts

\* if (this.refreshTimeout) clearTimeout(this.refreshTimeout)
clearPending(rt, ts) == IF rt # NULL THEN {t \in ts : t.id # rt} ELSE ts

\* the handle setTimeout returns
freshId(ts) == CHOOSE i \in 1..(Cardinality(ts) + 1) :
                  /\ \A t \in ts : t.id # i
                  /\ \A j \in 1..(i - 1) : \E t \in ts : t.id = j

\* refreshTodoViews(): cancel the pending timer, schedule a new one
refreshTodoViews ==
    LET kept == clearPending(refreshTimeout, timers)
        id == freshId(kept)
    IN /\ timers' = kept \cup {[id |-> id, remaining |-> DEBOUNCE_DELAY]}
       /\ refreshTimeout' = id
       /\ loaded' = loaded

\* a burst is a run of notifications less than DEBOUNCE_DELAY apart
NoteNotification ==
    /\ sinceNotify' = 0
    /\ chainLen' = IF sinceNotify < DEBOUNCE_DELAY /\ chainLen >= 1 THEN 2 ELSE 1
    /\ chainFires' = IF sinceNotify < DEBOUNCE_DELAY THEN chainFires ELSE 0

\* the handlers registered in onload are removed when the plugin unloads,
\* and the host runs a due timer before it delivers a later notification
CanNotify == loaded /\ Due = {}

\* vault.on("modify")
Modify(f, c) ==
    /\ CanNotify
    /\ f \in DOMAIN vault
    /\ vault' = [vault EXCEPT ![f] = c]
    /\ refreshTodoViews
    /\ NoteNotification
    /\ UNCHANGED <<searchStrings, viewVars>>

\* vault.on("create")
Create(f, c) ==
    /\ CanNotify
    /\ f \notin DOMAIN vault
    /\ IsVault(DOMAIN vault \cup {f})
    /\ vault' = [p \in DOMAIN vault \cup {f} |-> IF p = f THEN c ELSE vault[p]]
    /\ refreshTodoViews
    /\ NoteNotification
    /\ UNCHANGED <<searchStrings, viewVars>>

\* vault.on("delete")
Delete(f) ==
    /\ CanNotify
    /\ f \in DOMAIN vault
    /\ vault' = [p \in DOMAIN vault \ {f} |-> vault[p]]
    /\ refreshTodoViews
    /\ NoteNotification
    /\ UNCHANGED <<searchStrings, viewVars>>

\* vault.on("rename"); the host renames the TFile objects a suspended scan
\* holds, so the scan reads the file under its new path
Rename(f, g) ==
    /\ CanNotify
    /\ f \in DOMAIN vault
    /\ g \notin DOMAIN vault
    /\ IsVault((DOMAIN vault \ {f}) \cup {g})
    /\ vault' = [p \in (DOMAIN vault \ {f}) \cup {g} |->
                    IF p = g THEN vault[f] ELSE vault[p]]
    /\ cycles' = [v \in Views |-> [i \in 1..Len(cycles[v]) |->
          [cycles[v][i] EXCEPT !.remaining =
              IF f \in @ THEN (@ \ {f}) \cup {g} ELSE @]]]
    /\ refreshTodoViews
    /\ NoteNotification
    /\ UNCHANGED <<searchStrings, open, todos, expandedFolders, dom, rendered,
                   collapsed, armed, lastToggle>>

\* time passes, but not beyond the moment a timer is due
Tick ==
    /\ Due = {}
    /\ timers # {} \/ sinceNotify < DEBOUNCE_DELAY
    /\ LET least == CHOOSE r \in {t.remaining : t \in timers} :
                       \A t \in timers : r <= t.remaining
           d == IF timers # {} /\ least < TickStep THEN least ELSE TickStep
       IN /\ timers' = {[t EXCEPT !.remaining = @ - d] : t \in timers}
          /\ sinceNotify' = IF sinceNotify + d > DEBOUNCE_DELAY
                            THEN DEBOUNCE_DELAY ELSE sinceNotify + d
    /\ UNCHANGED <<loaded, refreshTimeout, vault, searchStrings, viewVars,
                   chainLen, chainFires>>

\* this.app.workspace.getLeavesOfType(VIEW_TYPE_TODO_TREE)
getLeavesOfType == open

\* fault: the callback's loop ends after the first leaf
TimerFiresFirstOnly ==
    \E t \in Due :
        /\ \A v \in open : Len(cycles[v]) < MaxInFlight
        /\ timers' = timers \ {t}
        /\ SetViews([v \in {u \in open : \A w \in open : u <= w} |->
                       refresh(ViewOf(v))])
        /\ refreshTimeout' = NULL
        /\ chainFires' = IF chainFires < 2 THEN chainFires + 1 ELSE 2
        /\ UNCHANGED <<loaded, vault, searchStrings, open, sinceNotify,
                       chainLen, collapsed, armed, lastToggle>>

\* fault: the callback does not reset this.refreshTimeout
TimerFiresKeepsHandle ==
    \E t \in Due :
        /\ \A v \in open : Len(cycles[v]) < MaxInFlight
        /\ timers' = timers \ {t}
        /\ SetViews([v \in open |-> refresh(ViewOf(v))])
        /\ UNCHANGED refreshTimeout
        /\ chainFires' = IF chainFires < 2 THEN chainFires + 1 ELSE 2
        /\ UNCHANGED <<loaded, vault, searchStrings, open, sinceNotify,
                       chainLen, collapsed, armed, lastToggle>>

\* the setTimeout callback of refreshTodoViews: view.refresh() for every
\* leaf, each up to its first await, then this.refreshTimeout = null
TimerFires ==
    \E t \in Due :
        /\ \A v \in open : Len(cycles[v]) < MaxInFlight
        /\ timers' = timers \ {t}
        /\ SetViews([v \in getLeavesOfType |-> refresh(ViewOf(v))])
        /\ refreshTimeout' = NULL
        /\ chainFires' = IF chainFires < 2 THEN chainFires + 1 ELSE 2
        /\ UNCHANGED <<loaded, vault, searchStrings, open, sinceNotify,
                       chainLen, collapsed, armed, lastToggle>>

\* fault: onunload leaves the pending timer running
unloadTimersKeep(rt, ts) == ts

\* if (this.refreshTimeout) clearTimeout(this.refreshTimeout), in onunload
unloadTimers(rt, ts) == IF rt # NULL THEN {t \in ts : t.id # rt} ELSE ts

\* onunload(): cancel the pending timer and detach every view
onunload ==
    /\ loaded
    /\ loaded' = FALSE
    /\ timers' = unloadTimers(refreshTimeout, timers)
    /\ refreshTimeout' = NULL
    /\ open' = {}
    /\ SetViews([v \in Views |-> NewView])
    /\ collapsed' = [v \in Views |-> 0]
    /\ armed' = [v \in Views |-> 0]
    /\ lastToggle' = [v \in Views |-> NoToggle]
    /\ UNCHANGED <<vault, searchStrings, burstVars>>

(***************************************************************************)
(* The scan of a view, one document read at a time                         *)
(***************************************************************************)
RemoveAt(q, i) == SubSeq(q, 1, i - 1) \o SubSeq(q, i + 1, Len(q))

\* cycle i of view v is suspended on the read of f; the host decides the
\* order in which getMarkdownFiles() lists the files
Reading(v, i, f) ==
    /\ i \in 1..Len(cycles[v])
    /\ f \in cycles[v][i].remaining

\* await cachedRead(file) resolves for cycle i of view v: the lines of the
\* file are matched; after the last file the cycle assigns todos and renders
ReadDone(v, i, f) ==
    /\ Reading(v, i, f)
    /\ f \in DOMAIN vault
    /\ LET c == cycles[v][i]
           acc == addFileTodos(c.acc, f, scanFile(vault[f], c.lowered))
           rest == c.remaining \ {f}
           next ==
              IF rest = {}
              THEN finishCycle([ViewOf(v) EXCEPT !.cycles = RemoveAt(@, i)],
                               acc)
              ELSE [ViewOf(v) EXCEPT !.cycles[i] =
                       [c EXCEPT !.remaining = rest, !.acc = acc]]
       IN SetViews([u \in {v} |-> next])
    /\ collapsed' = [collapsed EXCEPT ![v] =
          IF @ >= 1 /\ i <= armed[v] /\ cycles[v][i].remaining = {f}
          THEN 2 ELSE @]
    /\ armed' = [armed EXCEPT ![v] =
          IF i <= @ /\ cycles[v][i].remaining = {f} THEN @ - 1 ELSE @]
    /\ lastToggle' = [lastToggle EXCEPT ![v] =
          IF cycles[v][i].remaining = {f} THEN cycleEnds(@, i) ELSE @]
    /\ UNCHANGED <<pluginVars, vault, searchStrings, open, burstVars>>

\* await cachedRead(file) rejects: nothing in scanTodos or refresh catches
\* it, so the invocation ends there without assigning todos or rendering
ReadFails(v, i, f) ==
    /\ Reading(v, i, f)
    /\ cycles' = [cycles EXCEPT ![v] = RemoveAt(@, i)]
    /\ armed' = [armed EXCEPT ![v] = IF i <= @ THEN @ - 1 ELSE @]
    /\ lastToggle' = [lastToggle EXCEPT ![v] = cycleEnds(@, i)]
    /\ UNCHANGED <<pluginVars, vault, searchStrings, open, todos,
                   expandedFolders, dom, rendered, burstVars, collapsed>>

(***************************************************************************)
(* User actions on a view                                                  *)
(***************************************************************************)
\* the user acted on view v while its cycles were suspended: from now on the
\* user's choice, not the state the cycles began with, is what they render
Disturb(v) == [i \in 1..Len(cycles[v]) |-> [cycles[v][i] EXCEPT !.pre = {}]]

\* the summary of e can be clicked: every <details> that e was created in
\* is open (the content of a closed <details> is not displayed)
Visible(d, e) ==
    \A a \in Details(d) :
       (Len(a.node) < Len(e.node) /\ SubSeq(e.node, 1, Len(a.node)) = a.node)
          => a.open

\* the user clicks a folder summary: the element toggles and the "toggle"
\* listener adds or deletes its folderPath
ToggleFolder(v, e) ==
    /\ v \in open
    /\ e \in Details(dom[v])
    /\ Visible(dom[v], e)
    /\ dom' = [dom EXCEPT ![v] = (@ \ {e}) \cup {[e EXCEPT !.open = ~e.open]}]
    /\ expandedFolders' = [expandedFolders EXCEPT ![v] =
          IF ~e.open THEN @ \cup {e.path} ELSE @ \ {e.path}]
    /\ collapsed' = [collapsed EXCEPT ![v] = IF ~e.open THEN 0 ELSE @]
    /\ armed' = [armed EXCEPT ![v] = IF ~e.open THEN 0 ELSE @]
    /\ lastToggle' = [lastToggle EXCEPT ![v] =
          IF cycles[v] = <<>> THEN NoToggle
          ELSE IF @ = NoToggle \/ @.node = e.node
          THEN [node |-> e.node, open |-> ~e.open, n |-> Len(cycles[v])]
          ELSE @]
    /\ cycles' = [cycles EXCEPT ![v] = Disturb(v)]
    /\ UNCHANGED <<pluginVars, vault, searchStrings, open, todos, rendered,
                   burstVars>>

\* expandAllFolders(container)
expandAllFolders(v) ==
    /\ v \in open
    /\ rendered[v]
    /\ dom' = [dom EXCEPT ![v] =
          {IF e.kind = "details" THEN [e EXCEPT !.open = TRUE] ELSE e : e \in @}]
    /\ expandedFolders' = [expandedFolders EXCEPT ![v] =
          @ \cup {e.path : e \in Details(dom[v])}]
    /\ collapsed' = [collapsed EXCEPT ![v] = 0]
    /\ armed' = [armed EXCEPT ![v] = 0]
    /\ lastToggle' = [lastToggle EXCEPT ![v] = NoToggle]
    /\ cycles' = [cycles EXCEPT ![v] = Disturb(v)]
    /\ UNCHANGED <<pluginVars, vault, searchStrings, open, todos, rendered,
                   burstVars>>

\* fault: collapse-all closes the elements but keeps the set
clearExpandedKeep(s) == s

\* this.expandedFolders.clear(), in collapseAllFolders
clearExpanded(s) == {}

\* collapseAllFolders(container)
collapseAllFolders(v) ==
    /\ v \in open
    /\ rendered[v]
    /\ dom' = [dom EXCEPT ![v] =
          {IF e.kind = "details" THEN [e EXCEPT !.open = FALSE] ELSE e : e \in @}]
    /\ expandedFolders' = [expandedFolders EXCEPT ![v] = clearExpanded(@)]
    /\ collapsed' = [collapsed EXCEPT ![v] = 1]
    /\ armed' = [armed EXCEPT ![v] = Len(cycles[v])]
    /\ lastToggle' = [lastToggle EXCEPT ![v] = NoToggle]
    /\ cycles' = [cycles EXCEPT ![v] = Disturb(v)]
    /\ UNCHANGED <<pluginVars, vault, searchStrings, open, todos, rendered,
                   burstVars>>

(***************************************************************************)
(* Views coming and going                                                  *)
(***************************************************************************)
\* activateView(): detach every leaf of the type, then open one view; the
\* host constructs the view (registerView factory) and calls onOpen
activateView ==
    /\ loaded
    /\ open' = {1}
    /\ SetViews([v \in Views |-> IF v = 1 THEN onOpen(NewView) ELSE NewView])
    /\ collapsed' = [v \in Views |-> 0]
    /\ armed' = [v \in Views |-> 0]
    /\ lastToggle' = [v \in Views |-> NoToggle]
    /\ UNCHANGED <<pluginVars, vault, searchStrings, burstVars>>

\* the host opens one more leaf of the view type (a split, a restored
\* layout): registerView factory, then onOpen
HostOpensLeaf ==
    /\ loaded
    /\ open # Views
    /\ LET v == CHOOSE x \in Views \ open : \A y \in Views \ open : x <= y
       IN /\ open' = open \cup {v}
          /\ SetViews([u \in {v} |-> onOpen(NewView)])
    /\ UNCHANGED <<pluginVars, vault, searchStrings, burstVars, collapsed,
                   armed, lastToggle>>

\* the user closes the leaf of view v; what its suspended cycles still do
\* touches the detached instance only
CloseLeaf(v) ==
    /\ v \in open
    /\ open' = open \ {v}
    /\ SetViews([u \in {v} |-> NewView])
    /\ collapsed' = [collapsed EXCEPT ![v] = 0]
    /\ armed' = [armed EXCEPT ![v] = 0]
    /\ lastToggle' = [lastToggle EXCEPT ![v] = NoToggle]
    /\ UNCHANGED <<pluginVars, vault, searchStrings, burstVars>>

(***************************************************************************)
(* Specification of the plugin with one view                               *)
(***************************************************************************)
\* every vault over the given paths and texts
Vaults(paths, texts) ==
    UNION {[P -> texts] : P \in {Q \in SUBSET paths : IsVault(Q)}}

InitRest ==
    /\ loaded = TRUE
    /\ refreshTimeout = NULL
    /\ timers = {}
    /\ open = {}
    /\ todos = [v \in Views |-> EmptyTodos]
    /\ expandedFolders = [v \in Views |-> {}]
    /\ dom = [v \in Views |-> {}]
    /\ rendered = [v \in Views |-> FALSE]
    /\ cycles = [v \in Views |-> <<>>]
    /\ sinceNotify = DEBOUNCE_DELAY
    /\ chainLen = 0
    /\ chainFires = 0
    /\ collapsed = [v \in Views |-> 0]
    /\ armed = [v \in Views |-> 0]
    /\ lastToggle = [v \in Views |-> NoToggle]

Init ==
    /\ vault \in Vaults(SpecPaths, SpecContents)
    /\ searchStrings = SavedSettings
    /\ InitRest

ScanSteps(paths) ==
    \/ \E v \in Views, i \in 1..MaxInFlight, f \in paths : ReadDone(v, i, f)
    \/ \E v \in Views, i \in 1..MaxInFlight, f \in paths : ReadFails(v, i, f)

Next ==
    \/ \E f \in SpecPaths, c \in SpecContents : Modify(f, c)
    \/ \E f \in SpecPaths, c \in SpecContents : Create(f, c)
    \/ \E f \in SpecPaths : Delete(f)
    \/ \E f \in SpecPaths, g \in SpecPaths : Rename(f, g)
    \/ Tick
    \/ TimerFires
    \/ onunload
    \/ ScanSteps(SpecPaths)
    \/ \E v \in Views : \E e \in dom[v] : ToggleFolder(v, e)
    \/ \E v \in Views : expandAllFolders(v)
    \/ \E v \in Views : collapseAllFolders(v)
    \/ activateView
    \/ \E v \in Views : CloseLeaf(v)

Spec == Init /\ [][Next]_vars

(***************************************************************************)
(* Specification of the coordinator with several views                     *)
(***************************************************************************)
\* the coordinator does not look at the documents: theirs hold no marker
BurstContents == {TextNone}

InitBurst ==
    /\ vault \in Vaults(SpecPaths, BurstContents)
    /\ searchStrings = SavedSettings
    /\ InitRest

NextBurst ==
    \/ \E f \in SpecPaths, c \in BurstContents : Modify(f, c)
    \/ \E f \in SpecPaths, c \in BurstContents : Create(f, c)
    \/ \E f \in SpecPaths : Delete(f)
    \/ \E f \in SpecPaths, g \in SpecPaths : Rename(f, g)
    \/ Tick
    \/ TimerFires
    \/ onunload
    \/ ScanSteps(SpecPaths)
    \/ HostOpensLeaf
    \/ \E v \in Views : CloseLeaf(v)

SpecBurst == InitBurst /\ [][NextBurst]_vars

(***************************************************************************)
(* Specification of one scan of a fixed vault                              *)
(***************************************************************************)
Texts(n) == UNION {[1..m -> Alphabet] : m \in 0..n}
MarkerLists(n) == UNION {[1..m -> ScanMarkers] : m \in 0..n}

InitScan ==
    /\ vault \in Vaults(ScanPaths, ScanTexts)
                 \cup UNION {[{p} -> Texts(MaxLen)] : p \in ScanPaths}
    /\ searchStrings \in MarkerLists(MaxMarkers)
    /\ InitRest

NextScan ==
    \/ activateView
    \/ \E v \in Views, i \in 1..MaxInFlight, f \in ScanPaths : ReadDone(v, i, f)

SpecScan == InitScan /\ [][NextScan]_vars


(***************************************************************************)
(* Refresh coordinator: properties                                         *)
(***************************************************************************)
\* the timer step starts exactly one refresh cycle on view v if v is open
\* (with no document to read the cycle runs to its render at once) and
\* leaves v alone otherwise
StartsOneCycle(v) ==
    IF v \notin open
    THEN /\ cycles'[v] = cycles[v]
         /\ dom'[v] = dom[v]
         /\ todos'[v] = todos[v]
    ELSE IF DOMAIN vault = {}
    THEN /\ cycles'[v] = cycles[v]
         /\ rendered'[v]
         /\ todos'[v] = EmptyTodos
    ELSE /\ Len(cycles'[v]) = Len(cycles[v]) + 1
         /\ SubSeq(cycles'[v], 1, Len(cycles[v])) = cycles[v]
         /\ cycles'[v][Len(cycles'[v])].remaining = DOMAIN vault

\* while the last notification is less than DEBOUNCE_DELAY old, the burst
\* has not fired and exactly one timer is pending, due one full delay after
\* that notification; once the burst has fired, no timer is left
BurstPending ==
    loaded =>
      /\ chainFires <= 1
      /\ sinceNotify < DEBOUNCE_DELAY =>
           /\ chainFires = 0
           /\ refreshTimeout # NULL
           /\ timers = {[id |-> refreshTimeout,
                         remaining |-> DEBOUNCE_DELAY - sinceNotify]}
      /\ chainFires = 1 => timers = {} /\ refreshTimeout = NULL

\* a firing comes a full delay after the last notification, is the first of
\* its burst, and starts one cycle on every open view
FiresOnce ==
    TimerFires =>
      /\ sinceNotify = DEBOUNCE_DELAY
      /\ chainLen >= 1
      /\ chainFires = 0
      /\ chainFires' = 1
      /\ \A v \in Views : StartsOneCycle(v)

\* C1: a burst of notifications, each less than DEBOUNCE_DELAY after the one
\* before and with no teardown, makes the timer fire exactly once, a full
\* DEBOUNCE_DELAY after the last notification, and that firing starts
\* exactly one refresh cycle on every open view
C1_BurstFiresOnce == []BurstPending /\ [][FiresOnce]_vars

\* a burst of two or more notifications has fired, with every view open and
\* a cycle in flight on each
C1_Witness ==
    /\ loaded
    /\ chainLen = 2
    /\ chainFires = 1
    /\ open = Views
    /\ \A v \in Views : Len(cycles[v]) = 1

\* C2: a view never has more than one refresh cycle in flight
C2_OneCycleInFlight == \A v \in Views : Len(cycles[v]) <= 1

(***************************************************************************)
(* Expansion state across refreshes                                        *)
(***************************************************************************)
\* the folder nodes of a tree other than the root node
FolderNodes(t) == {k \in DOMAIN t : k # <<>> /\ ~t[k].isFile}

\* in the tree built from tds there is a folder whose path is P, and every
\* container rendered for such a folder in d is open
OpenWhereRendered(tds, d, P) ==
    \A t \in {buildFileTree(tds)} :
      \A k \in FolderNodes(t) :
        (t[k].path = P /\ t[k].hasTodos) =>
          \A e \in Details(d) : e.node = k => e.open

\* cycle i of view v ends with the read of f and renders
Finishes(v, i, f) ==
    /\ ReadDone(v, i, f)
    /\ cycles[v][i].remaining = {f}

\* C3: a folder that was in the expansion state when a refresh cycle began,
\* with no user action on the view during the cycle, is rendered expanded
\* whenever the cycle's render shows it, also when an earlier render did not
\* show it
C3_ExpansionSurvives ==
    [][\A v \in Views : \A i \in 1..MaxInFlight : \A f \in SpecPaths :
         Finishes(v, i, f) =>
           \A P \in cycles[v][i].pre :
             OpenWhereRendered(todos'[v], dom'[v], P)]_vars

(***************************************************************************)
(* Scan: a failing read                                                    *)
(***************************************************************************)
\* the cycle goes on as if f had no matching line
SkipsFile(v, i, f) ==
    LET c == cycles[v][i] IN
    IF c.remaining = {f}
    THEN /\ todos'[v] = c.acc
         /\ rendered'[v]
         /\ Len(cycles'[v]) = Len(cycles[v]) - 1
    ELSE /\ Len(cycles'[v]) = Len(cycles[v])
         /\ cycles'[v][i].remaining = c.remaining \ {f}
         /\ cycles'[v][i].acc = c.acc

\* C4: a read that fails during a scan does not abort the scan: the document
\* is treated as having no matching line and the scan goes on
C4_ReadFailureSkipped ==
    [][\A v \in Views : \A i \in 1..MaxInFlight : \A f \in SpecPaths :
         ReadFails(v, i, f) => SkipsFile(v, i, f)]_vars

(***************************************************************************)
(* Teardown                                                                *)
(***************************************************************************)
\* after teardown there is no timer, the handle is null, no cycle is in
\* flight
TornDown ==
    ~loaded =>
      /\ timers = {}
      /\ refreshTimeout = NULL
      /\ \A v \in Views : cycles[v] = <<>>

\* C5: teardown while a timer is pending cancels it: the timer never fires,
\* the coordinator is idle, and no refresh cycle is started
C5_TeardownCancels == []TornDown /\ [][~loaded => ~TimerFires]_vars

\* teardown came during a burst of two notifications that had not fired,
\* and a full delay has gone by since without a firing
C5_Witness ==
    /\ ~loaded
    /\ chainLen = 2
    /\ chainFires = 0
    /\ sinceNotify = DEBOUNCE_DELAY


(***************************************************************************)
(* Scan result                                                             *)
(***************************************************************************)
\* the positions that bound the lines of s: before its first character,
\* each newline, after its last character
Breaks(s) == {0, Len(s) + 1} \cup {i \in 1..Len(s) : s[i] = NL}

\* the n-th break, counting from 0
BreakAt(s, n) ==
    CHOOSE b \in Breaks(s) : Cardinality({c \in Breaks(s) : c < b}) = n

NumLines(s) == Cardinality(Breaks(s)) - 1

\* line n of s, counting from 0
LineAt(s, n) == SubSeq(s, BreakAt(s, n) + 1, BreakAt(s, n + 1) - 1)

\* m occurs in line when letter case is ignored
ContainsIgnoringCase(line, m) ==
    \E i \in 0..(Len(line) - Len(m)) :
       \A j \in 1..Len(m) : LowerChar(line[i + j]) = LowerChar(m[j])

\* line without its leading and trailing white space
Trimmed(line) ==
    LET ink == {i \in 1..Len(line) : ~IsSpace(line[i])} IN
    IF ink = {} THEN <<>>
    ELSE SubSeq(line, CHOOSE i \in ink : \A j \in ink : i <= j,
                      CHOOSE i \in ink : \A j \in ink : j <= i)

\* the 0-based indices of the lines of content that contain a marker
MatchingLines(content, markers) ==
    {n \in 0..(NumLines(content) - 1) :
       \E j \in 1..Len(markers) :
          ContainsIgnoringCase(LineAt(content, n), markers[j])}

\* result is the scan result of corpus under markers
IsScanResult(result, corpus, markers) ==
    /\ DOMAIN result =
         {p \in DOMAIN corpus : MatchingLines(corpus[p], markers) # {}}
    /\ \A p \in DOMAIN result :
         LET L == result[p]
             M == MatchingLines(corpus[p], markers)
         IN /\ Len(L) = Cardinality(M)
            /\ Len(L) > 0
            /\ \A j \in 1..Len(L) :
                 /\ L[j].line \in M
                 /\ L[j].text = Trimmed(LineAt(corpus[p], L[j].line))
            /\ \A j \in 1..(Len(L) - 1) : L[j].line < L[j + 1].line
    /\ markers = <<>> => result = EmptyTodos

\* C6: the scan result has a document as key iff some line of the document
\* contains a marker, letter case ignored; its list is exactly those lines,
\* trimmed, with 0-based indices, in ascending order; no list is empty and
\* an empty marker list gives an empty result
C6_ScanResult ==
    \A v \in Views :
       rendered[v] => IsScanResult(todos[v], vault, searchStrings)

\* a scan has ended in which one document gave two matching lines, one of
\* them holding an upper-case letter, and another document gave none
C6_Witness ==
    /\ rendered[1]
    /\ DOMAIN todos[1] # DOMAIN vault
    /\ \E p \in DOMAIN todos[1] :
         /\ Len(todos[1][p]) = 2
         /\ \E j \in 1..2 :
              todos[1][p][j].text # toLowerCase(todos[1][p][j].text)

(***************************************************************************)
(* Built tree                                                              *)
(***************************************************************************)
\* the sum of the counts the nodes S hold in tree t
RECURSIVE CountSum(_, _)
CountSum(t, S) ==
    IF S = {} THEN 0
    ELSE LET c == CHOOSE x \in S : TRUE
         IN t[c].todoCount + CountSum(t, S \ {c})

\* every node of the tree built from tds has the count of its kind, and
\* hasTodos says whether that count is positive
HasAggregates(tds) ==
    \A t \in {buildFileTree(tds)} :
      \A k \in DOMAIN t :
        /\ t[k].hasTodos = (t[k].todoCount > 0)
        /\ IF t[k].isFile
           THEN t[k].todoCount = Len(tds[t[k].path])
           ELSE t[k].todoCount = CountSum(t, Children(DOMAIN t, k))

\* C7: in the built tree every folder node, the root included, counts the
\* sum of its children's counts, every file node counts the length of its
\* list in the scan result, and hasTodos is count > 0 on every node
C7_TreeAggregates == \A v \in Views : rendered[v] => HasAggregates(todos[v])

\* a tree was built in which a folder below the top level holds two files
\* and counts at least three matches
C7_Witness ==
    /\ rendered[1]
    /\ \A t \in {buildFileTree(todos[1])} :
         \E k \in FolderNodes(t) :
            /\ Len(k) = 2
            /\ Cardinality({c \in Children(DOMAIN t, k) : t[c].isFile}) = 2
            /\ t[k].todoCount >= 3

(***************************************************************************)
(* Rendered folders                                                        *)
(***************************************************************************)
\* C8: every folder node other than the root is rendered as a container of
\* its own, and the path attached to the container is the node's full path
C8_CanonicalPaths ==
    \A v \in Views :
       rendered[v] =>
         \A t \in {buildFileTree(todos[v])} :
           \A k \in FolderNodes(t) :
              \E e \in Details(dom[v]) : e.node = k /\ e.path = t[k].path

\* every container of view v is closed and its expansion state is empty
AllCollapsed(v) ==
    /\ expandedFolders[v] = {}
    /\ \A e \in Details(dom[v]) : ~e.open

\* C9: from collapse-all until a folder is opened, the expansion state is
\* empty and every rendered container is closed, also after the render of a
\* cycle that was in flight at the collapse-all
C9_CollapseAll == \A v \in Views : collapsed[v] >= 1 => AllCollapsed(v)

\* a cycle that was suspended at a collapse-all has since rendered folders,
\* and no folder was opened in between
C9_Witness ==
    \E v \in Views :
       /\ collapsed[v] = 2
       /\ cycles[v] = <<>>
       /\ Details(dom[v]) # {}

\* C10: right after expand-all the expansion state holds the full path of
\* every folder node of the current tree and every folder has an open
\* container
C10_ExpandAll ==
    [][\A v \in Views :
         expandAllFolders(v) =>
           \A t \in {buildFileTree(todos[v])} :
             \A k \in FolderNodes(t) :
                /\ t[k].path \in expandedFolders'[v]
                /\ \E e \in Details(dom'[v]) : e.node = k /\ e.open]_vars


(***************************************************************************)
(* Rendered entries                                                        *)
(***************************************************************************)
Files(d) == {e \in d : e.kind = "file"}

\* d shows the scan result tds: one file entry for every key, with the
\* key's matches as rows in list order and their number as badge; nothing
\* is shown for a node without matches, and nothing at all for an empty
\* result
ShowsResult(d, tds) ==
    /\ {e.path : e \in Files(d)} = DOMAIN tds
    /\ Cardinality(Files(d)) = Cardinality(DOMAIN tds)
    /\ \A e \in Files(d) :
         /\ e.rows = tds[e.path]
         /\ e.badge = Len(e.rows)
         /\ e.badge > 0
    /\ \A t \in {buildFileTree(tds)} :
         \A e \in d : e.node \in DOMAIN t /\ t[e.node].hasTodos
    /\ DOMAIN tds = {} => d = {}

\* C11: after every render the file entries shown are exactly the keys of
\* the view's scan result, each once, with one row per match in list order
\* and a badge equal to the number of rows; no node without matches is
\* shown, and an empty result shows no entry
C11_RenderComplete ==
    \A v \in Views : rendered[v] => ShowsResult(dom[v], todos[v])

\* a render has shown two files, one of them with two rows, below folders,
\* while a document of the vault without match is not shown
C11_Witness ==
    /\ rendered[1]
    /\ Cardinality(Files(dom[1])) = 2
    /\ Details(dom[1]) # {}
    /\ \E e \in Files(dom[1]) : Len(e.rows) = 2
    /\ DOMAIN vault # DOMAIN todos[1]


(***************************************************************************)
(* Failures of a cycle                                                     *)
(***************************************************************************)
\* view v is open, has never rendered and has no cycle in flight: every
\* cycle it started, the one of onOpen included, has failed
FailedView(v) ==
    /\ v \in open
    /\ ~rendered[v]
    /\ cycles[v] = <<>>

\* a failing read changes nothing of the coordinator and nothing of any
\* other view
FailureIsLocal ==
    \A v \in Views : \A i \in 1..MaxInFlight : \A f \in SpecPaths :
       ReadFails(v, i, f) =>
         /\ pluginVars' = pluginVars
         /\ \A u \in Views \ {v} :
              /\ cycles'[u] = cycles[u]
              /\ todos'[u] = todos[u]
              /\ dom'[u] = dom[u]

\* a firing resets the handle and starts a cycle on every open view
RefreshesAll ==
    TimerFires =>
      /\ refreshTimeout' = NULL
      /\ timers' = {}
      /\ \A v \in Views : StartsOneCycle(v)

\* with a failed view around, a notification less than DEBOUNCE_DELAY old
\* has its timer pending, and without a timer the coordinator is idle
SchedulesAfterFailure ==
    (loaded /\ \E v \in Views : FailedView(v)) =>
      /\ sinceNotify < DEBOUNCE_DELAY =>
           timers = {[id |-> refreshTimeout,
                      remaining |-> DEBOUNCE_DELAY - sinceNotify]}
      /\ timers = {} => refreshTimeout = NULL

\* C12: a failing cycle of one view leaves the coordinator and the other
\* views alone: the firing still resets the handle and starts a cycle on
\* every open view, and later notifications still schedule their timer
C12_FailuresStayLocal ==
    /\ []SchedulesAfterFailure
    /\ [][FailureIsLocal]_vars
    /\ [][RefreshesAll]_vars

\* the timer has fired; every cycle of view 1 has failed, view 2 has
\* rendered and has the cycle of this firing in flight; the coordinator is
\* idle
C12_Witness ==
    /\ loaded
    /\ chainFires = 1
    /\ refreshTimeout = NULL
    /\ FailedView(1)
    /\ 2 \in open
    /\ rendered[2]
    /\ cycles[2] # <<>>


(***************************************************************************)
(* Latency of a refresh                                                    *)
(***************************************************************************)
\* the coordinator with its scheduling: time passes, the host runs a due
\* timer, and a pending read resolves or rejects
SpecLive ==
    /\ InitBurst
    /\ [][NextBurst]_vars
    /\ WF_vars(Tick)
    /\ WF_vars(TimerFires)
    /\ WF_vars(ScanSteps(SpecPaths))

\* C13: unless the plugin is unloaded, a notification is followed by a
\* firing of the timer, which starts the refresh cycles, whatever
\* notifications come later
C13_RefreshFollows ==
    (loaded /\ timers # {}) ~> (timers = {})


(***************************************************************************)
(* Specification of the folders of one view                                *)
(***************************************************************************)
\* two folders named y, one of them below a folder named root
PathC == <<"x", "/", "y", "/", "a">>
FolderPaths == {PathC, PathB}
FolderContents == {TextTodo}

InitFolders ==
    /\ vault \in Vaults(FolderPaths, FolderContents)
    /\ searchStrings = SavedSettings
    /\ InitRest

NextFolders ==
    \/ \E f \in FolderPaths, c \in FolderContents : Modify(f, c)
    \/ Tick
    \/ TimerFires
    \/ \E v \in Views, i \in 1..MaxInFlight, f \in FolderPaths :
          ReadDone(v, i, f)
    \/ \E v \in Views : \E e \in dom[v] : ToggleFolder(v, e)
    \/ \E v \in Views : expandAllFolders(v)
    \/ \E v \in Views : collapseAllFolders(v)
    \/ activateView

SpecFolders == InitFolders /\ [][NextFolders]_vars

\* the step replaces the rendered content of view v
Renders(v) ==
    \/ \E i \in 1..MaxInFlight : \E f \in FolderPaths : Finishes(v, i, f)
    \/ TimerFires /\ v \in open /\ DOMAIN vault = {}

\* a timer step captures the open folders of every open view while their
\* content is still there
CaptureFirst ==
    (TimerFires /\ DOMAIN vault # {}) =>
       \A v \in open :
          /\ dom'[v] = dom[v]
          /\ expandedFolders'[v] = {e.path : e \in {x \in Details(dom[v]) : x.open}}

\* when a step replaces the content of view v, the identifier of every open
\* folder of the old content is in the expansion state
NoUntrackedDiscard ==
    \A v \in Views :
       Renders(v) =>
         \A e \in Details(dom[v]) : e.open => e.path \in expandedFolders[v]

\* C14: every refresh captures the open folders before the content is
\* discarded and a new tree is rendered, and no interleaving lets a render
\* replace content with an open folder the expansion state does not hold
C14_CaptureBeforeDiscard ==
    [][CaptureFirst /\ NoUntrackedDiscard]_vars

\* C15: every rendered folder container is open iff the full path of its
\* folder is in the expansion state
C15_OpenIffOwnPath ==
    \A v \in Views :
       rendered[v] =>
         \A t \in {buildFileTree(todos[v])} :
           \A e \in Details(dom[v]) :
              e.open <=> t[e.node].path \in expandedFolders[v]


(***************************************************************************)
(* Specification of scans that overlap changes, every read succeeding      *)
(***************************************************************************)
NextQuiet ==
    \/ \E f \in SpecPaths, c \in SpecContents : Modify(f, c)
    \/ \E f \in SpecPaths, c \in SpecContents : Create(f, c)
    \/ \E f \in SpecPaths : Delete(f)
    \/ Tick
    \/ TimerFires
    \/ \E v \in Views, i \in 1..MaxInFlight, f \in SpecPaths :
          ReadDone(v, i, f)
    \/ activateView

SpecQuiet == Init /\ [][NextQuiet]_vars

\* no timer is pending and view v has rendered and has no cycle in flight
Settled(v) ==
    /\ loaded
    /\ timers = {}
    /\ v \in open
    /\ rendered[v]
    /\ cycles[v] = <<>>

\* C16: once the notifications have stopped and every cycle has finished,
\* each open view shows the scan result of the corpus as it is then
C16_NoStaleOverwrite ==
    \A v \in Views :
       Settled(v) => IsScanResult(todos[v], vault, searchStrings)


(***************************************************************************)
(* A toggle during a scan                                                  *)
(***************************************************************************)
\* C17: when the user has opened or closed a folder while a cycle was
\* suspended after its capture, and the cycle's render shows the folder,
\* the folder is rendered in the state the user gave it
C17_ToggleKept ==
    [][\A v \in Views : \A i \in 1..MaxInFlight : \A f \in FolderPaths :
         (Finishes(v, i, f) /\ i <= lastToggle[v].n) =>
            \A e \in Details(dom'[v]) :
               e.node = lastToggle[v].node => e.open = lastToggle[v].open]_vars


(***************************************************************************)
(* The timer handle                                                        *)
(***************************************************************************)
\* C18: at most one timer is outstanding, and refreshTimeout is non-null
\* exactly when one is, in which case it is that timer's handle
C18_TimerInvariant ==
    /\ Cardinality(timers) <= 1
    /\ refreshTimeout # NULL <=> timers # {}
    /\ \A t \in timers : t.id = refreshTimeout

\* a second notification of a burst has replaced the pending timer, some
\* time ago and less than DEBOUNCE_DELAY, with a rendered view open
C18_Witness ==
    /\ loaded
    /\ chainLen = 2
    /\ sinceNotify > 0
    /\ sinceNotify < DEBOUNCE_DELAY
    /\ refreshTimeout # NULL
    /\ \E v \in open : rendered[v]


(***************************************************************************)
(* Settings tab                                                            *)
(***************************************************************************)
NonEmpty(x) == Len(x) > 0

Range(q) == {q[j] : j \in 1..Len(q)}

\* value.split("\n").map(s => s.trim()).filter(s => s.length > 0)
parseSearchStrings(value) ==
    LET parts == split(value, NL)
    IN SelectSeq([j \in 1..Len(parts) |-> trim(parts[j])], NonEmpty)

\* fault: the handler also asks for a refresh
ChangeSettingsRefreshes(value) ==
    /\ loaded
    /\ searchStrings' = parseSearchStrings(value)
    /\ refreshTodoViews
    /\ UNCHANGED <<vault, open, viewVars, burstVars>>

\* the onChange handler of the text area: the markers are replaced in the
\* settings object the views share, and saved
ChangeSettings(value) ==
    /\ loaded
    /\ searchStrings' = parseSearchStrings(value)
    /\ UNCHANGED <<pluginVars, vault, open, viewVars, burstVars>>

\* what the user may leave in the text area
SettingsTexts == {<<"x">>, <<SP, "T", SP, NL, NL, "x">>, <<SP, NL>>}

\* a document of two lines, each matched by one of the markers
SettingsContents == {<<"t", NL, "x">>}

InitSettings ==
    /\ vault \in Vaults(SpecPaths, SettingsContents)
    /\ searchStrings = <<<<"t">>>>
    /\ InitRest

NextSettings ==
    \/ \E value \in SettingsTexts : ChangeSettings(value)
    \/ \E f \in SpecPaths, c \in SettingsContents : Modify(f, c)
    \/ Tick
    \/ TimerFires
    \/ \E v \in Views, i \in 1..MaxInFlight, f \in SpecPaths :
          ReadDone(v, i, f)
    \/ activateView

SpecSettings == InitSettings /\ [][NextSettings]_vars

\* a change of the markers touches no timer, no cycle and no view
SettingsFrame ==
    \A value \in SettingsTexts :
       ChangeSettings(value) =>
         /\ timers' = timers
         /\ refreshTimeout' = refreshTimeout
         /\ cycles' = cycles
         /\ todos' = todos
         /\ dom' = dom
         /\ expandedFolders' = expandedFolders

\* a cycle that appears in a step has read the markers as they are then
StartsWithCurrent ==
    \A v \in Views : \A j \in 1..Len(cycles'[v]) :
       LET c == cycles'[v][j] IN
       (/\ \A k \in 1..Len(cycles[v]) : cycles[v][k] # c
        /\ c.acc = EmptyTodos
        /\ c.remaining = DOMAIN vault'
        /\ searchStrings' = searchStrings)
       => c.lowered = [k \in 1..Len(searchStrings) |->
                          toLowerCase(searchStrings[k])]

\* a read that resolves is matched against the markers the cycle read when
\* it started
ScanKeepsMarkers ==
    \A v \in Views : \A i \in 1..MaxInFlight : \A f \in SpecPaths :
       (/\ cycles'[v] # cycles[v]
        /\ timers' = timers
        /\ searchStrings' = searchStrings
        /\ ReadDone(v, i, f)) =>
         LET c == cycles[v][i]
             got == IF c.remaining = {f} THEN todos'[v]
                    ELSE cycles'[v][i].acc
             M == MatchingLines(vault[f], c.lowered)
         IN /\ f \in DOMAIN got <=> M # {}
            /\ f \in DOMAIN got => {m.line : m \in Range(got[f])} = M

\* C19: changing the markers starts no timer and no cycle and leaves the
\* result, the rendered tree and the expansion state as they are; a scan in
\* flight keeps the markers it read when it started, and a scan started
\* later reads the new ones
C19_SettingsChange ==
    [][SettingsFrame /\ StartsWithCurrent /\ ScanKeepsMarkers]_vars

\* the markers were changed while a scan was in flight: the scan holds the
\* old markers, no timer is pending, and the view still shows a result that
\* is not the scan result under the new markers
C19_Witness ==
    /\ rendered[1]
    /\ timers = {}
    /\ cycles[1] # <<>>
    /\ cycles[1][1].lowered # lowerSearchStrings(searchStrings)
    /\ ~IsScanResult(todos[1], vault, searchStrings)

=============================================================================
